---- MODULE Spec2Model ----
(***************************************************************************)
(* Model of xskew/tools.py: the subprocess runner run_command and the      *)
(* tool wrappers that build an argument vector and hand it to run_command. *)
(* A pipeline is a straight-line sequence of wrapper calls; the external   *)
(* child process and the file system are the environment.                  *)
(***************************************************************************)
EXTENDS Integers, Sequences, FiniteSets, TLC

\* ---------------------------------------------------------------- bounds
MaxSteps == 2      \* wrapper calls in one pipeline
MaxExit == 1       \* largest exit status of a child
MaxWrites == 1     \* chunks a child writes before it exits

\* ---------------------------------------------------------------- inputs
Files == {"a.bam"}
Prefixes == {"s1", "s2"}
Intervals == {"chrX", "chr1"}
Genomes == {"g.fa"}
OutFiles == {"o.vcf"}

\* ------------------------------------------------------- python values
None == [type |-> "NoneType"]

PyStr(s) == [type |-> "str", s |-> s]

\* class hierarchy of the exceptions involved (tools.py:7 and builtins)
Bases ==
  [NonZeroReturnException |-> "Exception",
   FileNotFoundError |-> "OSError",
   PermissionError |-> "OSError",
   OSError |-> "Exception",
   NameError |-> "Exception",
   Exception |-> "BaseException",
   BaseException |-> "object"]

RECURSIVE IsSubclass(_, _)
IsSubclass(c, d) ==
  \/ c = d
  \/ c # "object" /\ IsSubclass(Bases[c], d)

Exc(type, by) == [type |-> type, raisedby |-> by]

\* the way subprocess.run fails to launch a child
LaunchErrors == {"FileNotFoundError", "PermissionError"}

\* ------------------------------------------------------------ str()
Digit == <<"0", "1", "2", "3", "4", "5", "6", "7", "8", "9">>

RECURSIVE StrNat(_)
StrNat(n) ==
  IF n < 10 THEN Digit[n + 1]
  ELSE StrNat(n \div 10) \o Digit[(n % 10) + 1]

Str(n) == IF n < 0 THEN "-" \o StrNat(-n) ELSE StrNat(n)

\* " ".join(cmd)
RECURSIVE Join(_)
Join(cmd) ==
  IF Len(cmd) = 0 THEN ""
  ELSE IF Len(cmd) = 1 THEN cmd[1]
  ELSE cmd[1] \o " " \o Join(Tail(cmd))

\* ------------------------------------------------------------ events
\* What a call does, in order: log records, the child launch, rmtree calls.
Log(level, msg, arg) == [ev |-> "log", level |-> level, msg |-> msg, arg |-> arg]

Spawn(cmdstr) == [ev |-> "spawn", level |-> "-", msg |-> "subprocess.run", arg |-> cmdstr]

RmEvent(path, how) == [ev |-> "rmtree", level |-> "-", msg |-> how, arg |-> path]

LevelNo == [DEBUG |-> 10, INFO |-> 20, WARNING |-> 30, ERROR |-> 40]

\* ------------------------------------------------------ the child process
Streams == {"stdout", "stderr"}

Chunks == {[stream |-> "stdout", text |-> "o"], [stream |-> "stderr", text |-> "e"]}

WriteSeqs == UNION {[1..n -> Chunks] : n \in 0..MaxWrites}

\* 0..MaxExit from exit(), -1 for a child killed by signal 1
ExitCodes == (0 - 1)..MaxExit

StarDirs == {"_STARgenome", "_STARpass1"}

\* the file system a pipeline can start in: clean, or with the two-pass
\* directories of an earlier STAR run still there
InitialDirs == {{}, {"s1" \o d : d \in StarDirs}}

\* What the environment can do with one launch of cmd: fail to launch it, or
\* run it to an exit status with some writes; STAR may leave its two-pass
\* directories behind.
ChildOutcomes(cmd) ==
  {[launch |-> l, returncode |-> 0, writes |-> <<>>, creates |-> {}] : l \in LaunchErrors}
  \cup
  {[launch |-> "ok", returncode |-> c, writes |-> w, creates |-> s] :
     c \in ExitCodes, w \in WriteSeqs,
     s \in IF cmd[1] = "STAR" THEN SUBSET StarDirs ELSE {{}}}

\* text arriving on a pipe that is connected to the streams fds
RECURSIVE Captured(_, _)
Captured(writes, fds) ==
  IF writes = <<>> THEN ""
  ELSE (IF Head(writes).stream \in fds THEN Head(writes).text ELSE "")
       \o Captured(Tail(writes), fds)

\* subprocess.run(cmd, text=True, stdout=PIPE, stderr=PIPE): two pipes
SubprocessRunSplit(cmd, oc) ==
  IF oc.launch # "ok"
  THEN [raised |-> <<Exc(oc.launch, "subprocess.run")>>, cp |-> None]
  ELSE [raised |-> <<>>,
        cp |-> [returncode |-> oc.returncode,
                stdout |-> PyStr(Captured(oc.writes, {"stdout"})),
                stderr |-> PyStr(Captured(oc.writes, {"stderr"}))]]

\* subprocess.run(cmd, text=True, stdout=PIPE, stderr=STDOUT)
SubprocessRun(cmd, oc) ==
  IF oc.launch # "ok"
  THEN [raised |-> <<Exc(oc.launch, "subprocess.run")>>, cp |-> None]
  ELSE [raised |-> <<>>,
        cp |-> [returncode |-> oc.returncode,
                stdout |-> PyStr(Captured(oc.writes, Streams)),
                stderr |-> None]]

\* ------------------------------------------------------------ run_command
\* `if cp.returncode:` read the wrong way round
SucceededTruthy(cp) == cp.returncode # 0

\* str(cp.returncode) == '0'
Succeeded(cp) == Str(cp.returncode) = "0"

\* the success branch without its return statement
ZeroBranchNoReturn(cmdstr, cp) ==
  [trace |-> <<Log("INFO", "successfully ran", cmdstr)>>,
   raised |-> <<>>,
   value |-> None]

\* the success branch: log, return (stderr, stdout, returncode)
ZeroBranch(cmdstr, cp) ==
  [trace |-> <<Log("INFO", "successfully ran", cmdstr)>>,
   raised |-> <<>>,
   value |-> [type |-> "tuple", stderr |-> cp.stderr, stdout |-> cp.stdout,
              returncode |-> cp.returncode]]

\* the failure branch raising the exception the wrappers catch
NonZeroBranchRaises(cmdstr, cp) ==
  [trace |-> <<Log("WARNING", "non-zero return code for cmd", cmdstr)>>,
   raised |-> <<Exc("NonZeroReturnException", "run_command")>>,
   value |-> None]

\* the failure branch logging with logging.info
NonZeroBranchInfo(cmdstr, cp) ==
  [trace |-> <<Log("INFO", "non-zero return code for cmd", cmdstr)>>,
   raised |-> <<>>,
   value |-> None]

\* the failure branch: logging.warn, then the function falls off its end
NonZeroBranch(cmdstr, cp) ==
  [trace |-> <<Log("WARNING", "non-zero return code for cmd", cmdstr)>>,
   raised |-> <<>>,
   value |-> None]

RunCommand(cmd, oc) ==
  LET cmdstr == Join(cmd)
      head == <<Log("INFO", "running command:", cmdstr), Spawn(cmdstr)>>
      run == SubprocessRun(cmd, oc)
      cp == run.cp
      dbg == <<Log("DEBUG", "ran cmd", cmdstr)>>
             \o (IF cp.stderr # None
                 THEN <<Log("DEBUG", "got stderr:", cp.stderr.s)>> ELSE <<>>)
             \o (IF cp.stdout # None
                 THEN <<Log("DEBUG", "got stdout:", cp.stdout.s)>> ELSE <<>>)
      br == IF Succeeded(cp) THEN ZeroBranch(cmdstr, cp) ELSE NonZeroBranch(cmdstr, cp)
  IN IF run.raised # <<>>
     THEN [trace |-> head, raised |-> run.raised, value |-> None]
     ELSE [trace |-> head \o dbg \o br.trace, raised |-> br.raised, value |-> br.value]

\* ------------------------------------------------------------ wrappers
\* `except Exception`: a catch of everything
HandlerTypeBroad == "Exception"

\* `except NonZeroReturnException as nzre`
HandlerType == "NonZeroReturnException"

\* try: run_command(cmd) / except NonZeroReturnException: two logging.error
\* calls, the second reading the name traceback, which tools.py never imports.
\* raised is the escaping exception followed by its __context__ chain.
TryRunCommand(cmd, oc, problem) ==
  LET r == RunCommand(cmd, oc)
      caught == r.raised # <<>> /\ IsSubclass(r.raised[1].type, HandlerType)
  IN IF caught
     THEN [trace |-> r.trace \o <<Log("ERROR", "problem with", problem)>>,
           raised |-> <<Exc("NameError", "traceback")>> \o r.raised,
           rc |-> r]
     ELSE [trace |-> r.trace, raised |-> r.raised, rc |-> r]

\* shutil.rmtree(path) on the directories fs
Rmtree(path, fs) ==
  IF path \in fs
  THEN [trace |-> <<RmEvent(path, "removed")>>, raised |-> <<>>, fs |-> fs \ {path}]
  ELSE [trace |-> <<RmEvent(path, "FileNotFoundError")>>,
        raised |-> <<Exc("FileNotFoundError", "shutil.rmtree")>>, fs |-> fs]

\* shutil.rmtree(path, ignore_errors=True)
RmtreeIgnoreErrors(path, fs) ==
  [trace |-> <<RmEvent(path, IF path \in fs THEN "removed" ELSE "ignored")>>,
   raised |-> <<>>, fs |-> fs \ {path}]

\* the finally block with both removals guarded
CleanupGuarded(outprefix, fs, pending) ==
  LET r1 == RmtreeIgnoreErrors(outprefix \o "_STARgenome", fs)
      r2 == RmtreeIgnoreErrors(outprefix \o "_STARpass1", r1.fs)
  IN [trace |-> r1.trace \o r2.trace, raised |-> pending, fs |-> r2.fs]

\* the finally block of star_nowasp, entered with the exception pending (or
\* <<>>); an exception raised here replaces it and keeps it as its context
Cleanup(outprefix, fs, pending) ==
  LET r1 == Rmtree(outprefix \o "_STARgenome", fs)
      r2 == Rmtree(outprefix \o "_STARpass1", r1.fs)
  IN IF r1.raised # <<>>
     THEN [trace |-> r1.trace, raised |-> r1.raised \o pending, fs |-> r1.fs]
     ELSE IF r2.raised # <<>>
     THEN [trace |-> r1.trace \o r2.trace, raised |-> r2.raised \o pending, fs |-> r2.fs]
     ELSE [trace |-> r1.trace \o r2.trace, raised |-> pending, fs |-> r2.fs]

\* ------------------------------------------------------------ state
VARIABLES
  pc,         \* "running": the pipeline goes on; "aborted": a wrapper raised
  step,       \* wrapper calls made so far
  dirs,       \* directories present in the file system
  wrapper,    \* the wrapper called last
  args,       \* its arguments
  cmd,        \* the argument vector it handed to run_command
  child,      \* what the child process did
  atCleanup,  \* directories present when the child had ended
  trace,      \* events of the last call, in order
  result,     \* how run_command ended: [raised, value]
  raised      \* how the wrapper ended: <<>> or the escaping exception chain

vars == <<pc, step, dirs, wrapper, args, cmd, child, atCleanup, trace, result, raised>>

Init ==
  /\ pc = "running"
  /\ step = 0
  /\ dirs \in InitialDirs
  /\ wrapper = "none"
  /\ args = [none |-> ""]
  /\ cmd = <<>>
  /\ child = [launch |-> "none", returncode |-> 0, writes |-> <<>>, creates |-> {}]
  /\ atCleanup = {}
  /\ trace = <<>>
  /\ result = [raised |-> <<>>, value |-> None]
  /\ raised = <<>>

\* the caller is between two wrapper calls and has calls left to make
Ready == pc = "running" /\ step < MaxSteps

\* the pipeline takes the outcome of one wrapper call: it goes on to the next
\* call after a return and stops at an exception, which nothing above catches
Finish(w, a, c, oc, rc, fs, tr, exc, fs2) ==
  /\ wrapper' = w
  /\ args' = a
  /\ cmd' = c
  /\ child' = oc
  /\ atCleanup' = fs
  /\ trace' = tr
  /\ result' = [raised |-> rc.raised, value |-> rc.value]
  /\ raised' = exc
  /\ dirs' = fs2
  /\ step' = step + 1
  /\ pc' = IF exc = <<>> THEN "running" ELSE "aborted"

\* a wrapper that is try: run_command(cmd) / except NonZeroReturnException
Call(w, a, c, problem) ==
  \E oc \in ChildOutcomes(c) :
    LET t == TryRunCommand(c, oc, problem)
    IN Finish(w, a, c, oc, t.rc, dirs, t.trace, t.raised, dirs)

fasterq_dump ==
  /\ Ready
  /\ \E infile \in Files :
      LET a == [infile |-> infile, outdir |-> "out", nthreads |-> "4", tempdir |-> "tmp"]
      IN Call("fasterq_dump", a,
              <<"fasterq-dump", "--split-files", "--include-technical", "--force",
                "--threads", a.nthreads, "--outdir", a.outdir, "-t", a.tempdir,
                "--log-level", "debug", a.infile>>,
              a.infile)

\* try / except as above, then finally: the two rmtree calls
star_nowasp ==
  /\ Ready
  /\ \E end1 \in Files, outprefix \in Prefixes :
       LET a == [end1 |-> end1, end2 |-> "r2.fq", outprefix |-> outprefix,
                 outtemp |-> "tmp", nthreads |-> "4", genomedir |-> "gdir"]
           c == <<"STAR", "--readFilesIn", a.end1, a.end2,
                  "--outFileNamePrefix", a.outprefix, "--outTmpDir", a.outtemp,
                  "--runThreadN", a.nthreads, "--genomeDir", a.genomedir,
                  "--twopassMode Basic", "--twopass1readsN -1",
                  "--outSAMtype BAM Unsorted", "--quantMode GeneCounts">>
       IN \E oc \in ChildOutcomes(c) :
            LET t == TryRunCommand(c, oc, a.end1 \o "/" \o a.end2)
                fs == dirs \cup {a.outprefix \o d : d \in oc.creates}
                fin == Cleanup(a.outprefix, fs, t.raised)
            IN Finish("star_nowasp", a, c, oc, t.rc, fs, t.trace \o fin.trace,
                      fin.raised, fin.fs)

samtools_sort ==
  /\ Ready
  /\ \E infile \in Files :
      LET a == [infile |-> infile, outfile |-> "o.bam", memory |-> "2048", nthreads |-> "4"]
      IN Call("samtools_sort", a,
              <<"samtools", "sort", "-m", a.memory \o "M", "-o", a.outfile, "-O", "bam",
                "-@", a.nthreads, a.infile>>,
              a.infile)

samtools_index ==
  /\ Ready
  /\ \E infile \in Files :
      LET a == [infile |-> infile, nthreads |-> "4"]
      IN Call("samtools_index", a,
              <<"samtools", "index", "-@", a.nthreads, a.infile>>,
              a.infile)

samtools_view_region ==
  /\ Ready
  /\ \E infile \in Files, region \in Intervals :
      LET a == [infile |-> infile, outfile |-> "o.bam", region |-> region]
      IN Call("samtools_view_region", a,
              <<"samtools", "view", "-b", a.infile, "-o", a.outfile, a.region>>,
              a.infile)

samtools_view_quality ==
  /\ Ready
  /\ \E infile \in Files :
      LET a == [infile |-> infile, outfile |-> "o.bam", quality |-> "30"]
      IN Call("samtools_view_quality", a,
              <<"samtools", "view", "-q", a.quality, "-b", a.infile, "-o", a.outfile>>,
              a.infile)

gatk_arrg ==
  /\ Ready
  /\ \E infile \in Files :
      LET a == [infile |-> infile, outfile |-> "o.bam"]
      IN Call("gatk_arrg", a,
              <<"gatk", "AddOrReplaceReadGroups", "-I", a.infile, "-O", a.outfile,
                "-SO", "coordinate", "-RGID", "id", "-RGLB", "library",
                "-RGPL", "platform", "-RGPU", "machine", "-RGSM", "sample">>,
              a.infile)

gatk_md ==
  /\ Ready
  /\ \E infile \in Files :
      LET a == [infile |-> infile, outfile |-> "o.bam", metrics |-> "m.txt"]
      IN Call("gatk_md", a,
              <<"gatk", "MarkDuplicates", "-I", a.infile, "-O", a.outfile,
                "-CREATE_INDEX", "true", "-VALIDATION_STRINGENCY", "SILENT",
                "-M", a.metrics>>,
              a.infile)

gatk_sncr ==
  /\ Ready
  /\ \E infile \in Files, genome \in Genomes :
      LET a == [infile |-> infile, outfile |-> "o.bam", genome |-> genome]
      IN Call("gatk_sncr", a,
              <<"gatk", "SplitNCigarReads", "-R", a.genome, "-I", a.infile,
                "-O", a.outfile>>,
              a.infile)

gatk_htc ==
  /\ Ready
  /\ \E infile \in Files, outfile \in OutFiles, genome \in Genomes, interval \in Intervals :
      LET a == [infile |-> infile, outfile |-> outfile, genome |-> genome,
                interval |-> interval]
      IN Call("gatk_htc", a,
              <<"gatk", "HaplotypeCaller", "-R", a.genome, "-I", a.infile,
                "-O", a.outfile, "--dont-use-soft-clipped-bases",
                "-stand-call-conf", "0.0">>,
              a.infile)

Next ==
  \/ fasterq_dump
  \/ star_nowasp
  \/ samtools_sort
  \/ samtools_index
  \/ samtools_view_region
  \/ samtools_view_quality
  \/ gatk_arrg
  \/ gatk_md
  \/ gatk_sncr
  \/ gatk_htc

Spec == Init /\ [][Next]_vars

\* ------------------------------------------------------------ properties
Called == wrapper # "none"

Launched == Called /\ child.launch = "ok"

LaunchFailed == Called /\ child.launch \in LaunchErrors

\* positions in trace of the log records with message msg
LogsOf(msg) == {i \in DOMAIN trace : trace[i].ev = "log" /\ trace[i].msg = msg}

SuccessLogs == LogsOf("successfully ran")

NonZeroLogs == LogsOf("non-zero return code for cmd")

\* everything the child wrote, to either stream, in the order written
RECURSIVE AllText(_)
AllText(writes) ==
  IF writes = <<>> THEN "" ELSE Head(writes).text \o AllText(Tail(writes))

GenomeDir == args.outprefix \o "_STARgenome"

Pass1Dir == args.outprefix \o "_STARpass1"

RmtreeOf(path) == {i \in DOMAIN trace : trace[i].ev = "rmtree" /\ trace[i].arg = path}

\* C1: a child that launches and exits 0 makes run_command return
\* (stderr, stdout, 0) with stdout the text the child printed, after the
\* success log naming the command.
C1_ZeroExitReturnsResult ==
  (Launched /\ child.returncode = 0) =>
    /\ result.raised = <<>>
    /\ result.value.type = "tuple"
    /\ result.value.returncode = 0
    /\ result.value.stdout = PyStr(AllText(child.writes))
    /\ \E i \in SuccessLogs : trace[i].level = "INFO" /\ trace[i].arg = Join(cmd)

C1_Witness ==
  /\ Launched
  /\ child.returncode = 0
  /\ child.writes # <<>>
  /\ result.value.type = "tuple"

\* C2: a launch failure leaves run_command by an exception that is no
\* NonZeroReturnException and that no launched child can produce; nothing is
\* returned, neither the success log nor the non-zero warning nor the wrapper's
\* "problem with" log is emitted, and the wrapper ends by an exception whose
\* chain holds the launch failure.
C2_LaunchFailurePropagates ==
  LaunchFailed =>
    /\ result.raised = <<Exc(child.launch, "subprocess.run")>>
    /\ ~IsSubclass(child.launch, "NonZeroReturnException")
    /\ result.value = None
    /\ \A oc \in ChildOutcomes(cmd) :
         oc.launch = "ok" => RunCommand(cmd, oc).raised # result.raised
    /\ SuccessLogs = {}
    /\ NonZeroLogs = {}
    /\ LogsOf("problem with") = {}
    /\ raised # <<>>
    /\ \E i \in DOMAIN raised : raised[i] = Exc(child.launch, "subprocess.run")
    /\ pc = "aborted"

C2_Witness ==
  /\ LaunchFailed
  /\ wrapper = "star_nowasp"
  /\ child.launch = "FileNotFoundError"
  /\ Len(raised) = 2
  /\ raised[2].raisedby = "subprocess.run"

\* C3: a launched invocation emits exactly one of the success log and the
\* non-zero log, the success log exactly when the exit code is 0; the
\* non-zero log has severity WARNING or higher and names the command.
C3_ExactlyOneVerdictLog ==
  Launched =>
    /\ Cardinality(SuccessLogs) + Cardinality(NonZeroLogs) = 1
    /\ (child.returncode = 0) <=> (Cardinality(SuccessLogs) = 1)
    /\ child.returncode # 0 =>
         /\ SuccessLogs = {}
         /\ \E i \in NonZeroLogs :
              /\ LevelNo[trace[i].level] >= LevelNo["WARNING"]
              /\ trace[i].arg = Join(cmd)

C3_Witness ==
  /\ Launched
  /\ child.returncode = 1
  /\ NonZeroLogs # {}
  /\ SuccessLogs = {}

\* C4: what the caller of run_command gets for exit status 1 differs from
\* everything it can get for the same command exiting 0.
C4_FailureDiffersFromSuccess ==
  (Launched /\ child.returncode = 1) =>
    \A oc \in ChildOutcomes(cmd) :
      (oc.launch = "ok" /\ oc.returncode = 0) =>
        LET r0 == RunCommand(cmd, oc)
        IN <<r0.raised, r0.value>> # <<result.raised, result.value>>

C4_Witness ==
  /\ Launched
  /\ child.returncode = 1
  /\ result.raised = <<>>
  /\ result.value = None

\* C5: when a directory the cleanup of star_nowasp removes does not exist,
\* star_nowasp returns normally.
C5_CleanupToleratesMissingDir ==
  (wrapper = "star_nowasp" /\ ~({GenomeDir, Pass1Dir} \subseteq atCleanup)) =>
    raised = <<>>

\* C6: a wrapper whose command exits non-zero returns normally and the
\* pipeline goes on.
C6_NonZeroExitNeverAborts ==
  (Launched /\ child.returncode # 0) => (raised = <<>> /\ pc = "running")

\* C7: the argument vector gatk_htc hands to run_command holds infile,
\* outfile, genome and interval as tokens.
C7_HtcPassesAllArguments ==
  wrapper = "gatk_htc" =>
    \A v \in {args.infile, args.outfile, args.genome, args.interval} :
      \E i \in DOMAIN cmd : cmd[i] = v

\* C8: in star_nowasp the removal of <outprefix>_STARgenome is attempted once,
\* after the child launch and everything run_command logs; when that directory
\* is absent the removal's error leaves star_nowasp with the pending error as
\* its context, the removal of <outprefix>_STARpass1 is not attempted and the
\* file system is as the child left it.
C8_CleanupAlwaysAttempted ==
  wrapper = "star_nowasp" =>
    /\ Cardinality({i \in DOMAIN trace : trace[i].ev = "spawn"}) = 1
    /\ Cardinality(RmtreeOf(GenomeDir)) = 1
    /\ \A i \in RmtreeOf(GenomeDir) :
         \A j \in DOMAIN trace : trace[j].ev # "rmtree" => j < i
    /\ GenomeDir \notin atCleanup =>
         /\ raised # <<>>
         /\ raised[1] = Exc("FileNotFoundError", "shutil.rmtree")
         /\ Tail(raised) = result.raised
         /\ RmtreeOf(Pass1Dir) = {}
         /\ dirs = atCleanup

C8_Witness ==
  /\ wrapper = "star_nowasp"
  /\ child.returncode # 0
  /\ GenomeDir \notin atCleanup
  /\ Pass1Dir \in atCleanup
  /\ Pass1Dir \in dirs
  /\ raised # <<>>

C10_StderrMergedIntoStdout ==
  /\ LogsOf("got stderr:") = {}
  /\ (Called /\ result.value.type = "tuple") =>
       /\ result.value.stderr = None
       /\ result.value.stdout = PyStr(AllText(child.writes))

C10_Witness ==
  /\ Called
  /\ result.value.type = "tuple"
  /\ \E i \in DOMAIN child.writes : child.writes[i].stream = "stderr"
  /\ LogsOf("got stdout:") # {}

====
